---- MODULE Spec2Model ----
(***************************************************************************)
(* Model of slurminade/autobatch.py: HashableDict and the AutoBatch        *)
(* context manager (add, on_completion, run_locally, distribute,           *)
(* _add_on_completion_tasks, __exit__), together with the collaborators    *)
(* it calls: the dispatcher (job ids, submissions), SlurmFunction.call     *)
(* (local execution) and shutil.which("sbatch").                           *)
(*                                                                         *)
(* Python strings are sequences of one-character strings, so that str()    *)
(* and join() are computed and not assumed.  A dict is the sequence of its *)
(* <<key, value>> items in insertion order.  A dispatcher call may raise;   *)
(* SlurmFunction.call is taken to return.  Each handler is one step; the   *)
(* variables dispatched, executed, stdout, last, pre_tasks and             *)
(* pre_completion hold what the last step did and what it started from.    *)
(***************************************************************************)
EXTENDS Integers, Sequences, FiniteSets, TLC

VARIABLES
    max_batch_size,  \* self.max_batch_size: <<>> for None, <<B>> for the int B
    _tasks,          \* self._tasks: sequence of [hash, key, calls] entries
                     \* in insertion order of the keys
    _on_completion,  \* self._on_completion: sequence of <<func, args, kwargs>>
    sbatch,          \* what shutil.which("sbatch") found when __exit__ asked
    next_job_id,     \* the job id the scheduler hands out next
    dispatched,      \* the dispatcher calls the last operation made, in order
    executed,        \* the SlurmFunction.call calls the last operation made
    stdout,          \* the lines the last operation printed
    scope,           \* the with block: "open", then "exited" (the body
                     \* returned) or "failed" (the body raised)
    last,            \* the last operation: its name, the terminal action it
                     \* ran, the exception it let out, what it returned, and
                     \* whether it came right after a terminal action that
                     \* had returned normally
    pre_tasks,       \* self._tasks as the last operation found it
    pre_completion,  \* self._on_completion as the last operation found it
    n_add,           \* the number of calls add() has accepted
    n_terminal,      \* the number of terminal actions started
    frame            \* the distribute() call in progress, when its loops
                     \* are followed an iteration at a time: where it is
                     \* (pc), the group the for loop is at, and its locals
                     \* calls and job_ids

vars == <<max_batch_size, _tasks, _on_completion, sbatch, next_job_id,
          dispatched, executed, stdout, scope, last, pre_tasks,
          pre_completion, n_add, n_terminal, frame>>

---------------------------------------------------------------------------
(* Bounds of the model. *)

\* calls add() accepts in one behaviour
MaxAdds == 3
\* on_completion() calls in one behaviour
MaxCompletions == 2
\* terminal actions (explicit distribute()/run_locally() and scope exit)
MaxTerminals == 2
\* calls add() accepts in one behaviour of a caller that only batches
MaxBatchedAdds == 5
\* largest max_batch_size the constructor is given
MaxBatch == 2
\* first job id the scheduler hands out
FirstJobId == 9
\* range of the modelled hash values
HashMod == 16
\* max_batch_size goes down to -MaxNegativeBatch when distribute() is
\* followed an iteration at a time
MaxNegativeBatch == 1
\* calls added before such a distribute()
MaxLoopAdds == 4
\* the scheduler's largest job id: the next job gets FirstJobId again
MaxJobId == 16
\* how many of its latest entries the log of dispatcher calls and job_ids
\* keep when distribute() is followed an iteration at a time; no
\* distribute() that returns makes more calls than this
MaxKept == 6

\* None, for the optional max_batch_size
None == <<>>

\* no exception
NoException == "None"

---------------------------------------------------------------------------
(* Python strings and lists. *)

Digits == <<"0", "1", "2", "3", "4", "5", "6", "7", "8", "9">>

RECURSIVE str(_)
\* str(j) for a non-negative int: its decimal digits
str(j) == IF j < 10 THEN <<Digits[j + 1]>>
          ELSE str(j \div 10) \o <<Digits[(j % 10) + 1]>>

RECURSIVE join(_, _)
\* sep.join(parts)
join(sep, parts) ==
    IF parts = <<>> THEN <<>>
    ELSE IF Len(parts) = 1 THEN parts[1]
    ELSE parts[1] \o sep \o join(sep, Tail(parts))

\* the index a slice bound n denotes in a list of length len
SliceIndex(n, len) ==
    IF n < 0 THEN (IF n + len < 0 THEN 0 ELSE n + len)
    ELSE IF n > len THEN len ELSE n

\* s[:n]
SliceTo(s, n) == SubSeq(s, 1, SliceIndex(n, Len(s)))

\* s[n - 1:], a slice that starts one element early
SliceFromOneEarly(s, n) == SubSeq(s, SliceIndex(n - 1, Len(s)) + 1, Len(s))

\* s[n:]
SliceFrom(s, n) == SubSeq(s, SliceIndex(n, Len(s)) + 1, Len(s))

---------------------------------------------------------------------------
(* String literals of the program and of its inputs. *)

S_cpus == <<"c", "p", "u", "s">>
S_mem == <<"m", "e", "m">>
S_partition == <<"p", "a", "r", "t", "i", "t", "i", "o", "n">>
S_dependency == <<"d", "e", "p", "e", "n", "d", "e", "n", "c", "y">>
S_afterok5 == <<"a", "f", "t", "e", "r", "o", "k", ":", "5">>
S_afterany == <<"a", "f", "t", "e", "r", "a", "n", "y", ":">>
S_comma_afterany == <<",">> \o S_afterany
S_colon == <<":">>
S_empty == <<>>

---------------------------------------------------------------------------
(* hash() of the built-in types.  CPython's str hash is an arbitrary       *)
(* (per-process keyed) function of the characters and its tuple hash an    *)
(* order-dependent combination of the items' hashes; both are modelled by  *)
(* a polynomial fold into HashMod values, so distinct values may collide.  *)

Alphabet == <<"a", "b", "c", "d", "e", "f", "g", "h", "i", "j", "k", "l",
              "m", "n", "o", "p", "q", "r", "s", "t", "u", "v", "w", "x",
              "y", "z", "0", "1", "2", "3", "4", "5", "6", "7", "8", "9",
              ":", ",">>

CharCodes ==
    [c \in {Alphabet[i] : i \in 1..Len(Alphabet)} |->
        CHOOSE i \in 1..Len(Alphabet) : Alphabet[i] = c]

CharCode(c) == CharCodes[c]

RECURSIVE HashFold(_, _)
HashFold(xs, acc) ==
    IF xs = <<>> THEN acc
    ELSE HashFold(Tail(xs), (acc * 31 + xs[1]) % HashMod)

\* hash(s) for a str
HashStr(s) == HashFold([i \in 1..Len(s) |-> CharCode(s[i])], 7)

\* hash(t) for a tuple of already-hashed items
HashTuple(hs) == HashFold(hs, Len(hs) + 3)

\* sorted(xs) for a list of ints
sorted(xs) == SortSeq(xs, LAMBDA a, b : a < b)

---------------------------------------------------------------------------
(* HashableDict: a dict whose hash is order-independent. *)

\* hash((k, v)) for one item
HashItem(item) == HashTuple(<<HashStr(item[1]), HashStr(item[2])>>)

\* HashableDict.__hash__ without sorted(): the hash depends on the key order
HashableDict_hash_unsorted(d) ==
    HashTuple([i \in 1..Len(d) |-> HashItem(d[i])])

\* HashableDict.__hash__
HashableDict_hash(d) ==
    HashTuple(sorted([i \in 1..Len(d) |-> HashItem(d[i])]))

\* dict.__eq__ (inherited): same size, every key of a is in b with a's value
dict_eq(a, b) ==
    /\ Len(a) = Len(b)
    /\ \A i \in 1..Len(a) :
          \E j \in 1..Len(b) : b[j][1] = a[i][1] /\ b[j][2] = a[i][2]

\* d.get(key, default)
dict_get(d, key, default) ==
    IF \E i \in 1..Len(d) : d[i][1] = key
    THEN d[CHOOSE i \in 1..Len(d) : d[i][1] = key][2]
    ELSE default

RECURSIVE dict_update(_, _)
\* d.update(other): existing keys keep their position, new keys are appended
dict_update(d, other) ==
    IF other = <<>> THEN d
    ELSE LET k == other[1][1]
             v == other[1][2]
             d1 == IF \E i \in 1..Len(d) : d[i][1] = k
                   THEN [i \in 1..Len(d) |->
                            IF d[i][1] = k THEN <<k, v>> ELSE d[i]]
                   ELSE Append(d, <<k, v>>)
         IN  dict_update(d1, Tail(other))

---------------------------------------------------------------------------
(* Collaborators: the registered functions and the configuration merge. *)

\* the SlurmFunction objects the caller has (ids of slurmified functions)
SlurmFunctions == {"F1", "F2", "F3"}

\* an object that is not a SlurmFunction
PlainFunction == "plain"

\* the SlurmFunction objects the caller registers for completion
CompletionFunctions == {"F1", "F3"}

\* func.special_slurm_opts
special_slurm_opts(func) ==
    CASE func = "F1" -> << <<S_cpus, <<"2">>>>, <<S_mem, <<"1">>>> >>
      [] func = "F2" -> << <<S_mem, <<"1">>>>, <<S_cpus, <<"2">>>> >>
      [] func = "F3" -> << <<S_dependency, S_afterok5>> >>
      [] OTHER -> <<>>

\* isinstance(func, SlurmFunction) answering True for every object
isinstance_anything(func) == TRUE

\* isinstance(func, SlurmFunction)
isinstance_SlurmFunction(func) == func \in SlurmFunctions

\* the process-wide default configuration
default_conf == << <<S_partition, <<"x">>>> >>

\* _get_conf(conf): the defaults overridden by the call's special options
_get_conf(conf) == dict_update(default_conf, conf)

\* _FunctionCall(func_id, args, kwargs)
_FunctionCall(func_id, args, kwargs) ==
    [func_id |-> func_id, args |-> args, kwargs |-> kwargs]

---------------------------------------------------------------------------
(* The defaultdict self._tasks: a sequence of [hash, key, calls] entries   *)
(* in first-insertion order of the keys; like CPython's dict, an entry     *)
(* keeps the hash its key had when it was inserted.                        *)

\* the entry a lookup of a key with hash h finds: same hash and equal key,
\* 0 if there is none
tasks_find(tasks, h, key) ==
    IF \E i \in 1..Len(tasks) : tasks[i].hash = h /\ dict_eq(tasks[i].key, key)
    THEN CHOOSE i \in 1..Len(tasks) :
             tasks[i].hash = h /\ dict_eq(tasks[i].key, key)
    ELSE 0

\* self._tasks[key].append(call), the default factory making a new list
tasks_append(tasks, key, call) ==
    LET h == HashableDict_hash(key)
        i == tasks_find(tasks, h, key)
    IN  IF i = 0
        THEN Append(tasks, [hash |-> h, key |-> key, calls |-> <<call>>])
        ELSE [tasks EXCEPT ![i].calls = Append(@, call)]

---------------------------------------------------------------------------
(* distribute(): the dispatcher calls it makes, in order. *)

RECURSIVE ChunksDropping(_, _)
\* Chunks with the rest taken one call too far: calls = calls[B + 1:]
ChunksDropping(calls, B) ==
    IF calls = <<>> THEN <<>>
    ELSE <<SliceTo(calls, B)>> \o ChunksDropping(SliceFrom(calls, B + 1), B)

RECURSIVE ChunksTooLong(_, _)
\* Chunks with both slices one call too far: chunks of B + 1 calls
ChunksTooLong(calls, B) ==
    IF calls = <<>> THEN <<>>
    ELSE <<SliceTo(calls, B + 1)>>
         \o ChunksTooLong(SliceFrom(calls, B + 1), B)

RECURSIVE Chunks(_, _)
\* the while loop of distribute(): calls[:B] is dispatched, calls = calls[B:]
Chunks(calls, B) ==
    IF calls = <<>> THEN <<>>
    ELSE <<SliceTo(calls, B)>> \o Chunks(SliceFrom(calls, B), B)

\* GroupBatches taking an unset max_batch_size for 1
GroupBatchesOnePerCall(calls, B) ==
    IF B = None THEN Chunks(calls, 1) ELSE Chunks(calls, B[1])

\* the batches distribute() dispatches for one group
GroupBatches(calls, B) ==
    IF B = None THEN <<calls>> ELSE Chunks(calls, B[1])

RECURSIVE BatchPlan(_, _)
\* all dispatch_batch_to_slurm(calls, conf) calls of one distribute()
BatchPlan(tasks, B) ==
    IF tasks = <<>> THEN <<>>
    ELSE LET bs == GroupBatches(tasks[1].calls, B)
         IN  [i \in 1..Len(bs) |-> [calls |-> bs[i], conf |-> tasks[1].key]]
             \o BatchPlan(Tail(tasks), B)

\* CompletionDependency joining the existing clause without the comma
CompletionDependencyNoComma(sfunc, job_ids) ==
    LET dep == dict_get(special_slurm_opts(sfunc), S_dependency, S_empty)
        ids == join(S_colon, [i \in 1..Len(job_ids) |-> str(job_ids[i])])
    IN  dep \o S_afterany \o ids

\* the dependency _add_on_completion_tasks gives an entry
CompletionDependency(sfunc, job_ids) ==
    LET dep == dict_get(special_slurm_opts(sfunc), S_dependency, S_empty)
        ids == join(S_colon, [i \in 1..Len(job_ids) |-> str(job_ids[i])])
    IN  IF dep # S_empty
        THEN dep \o S_comma_afterany \o ids
        ELSE S_afterany \o ids

\* CompletionPlan going through self._on_completion from its end
CompletionPlanLastFirst(on_completion, job_ids) ==
    [i \in 1..Len(on_completion) |->
        LET entry == on_completion[Len(on_completion) + 1 - i]
        IN  [calls |-> <<_FunctionCall(entry[1], entry[2], entry[3])>>,
             conf |-> << <<S_dependency,
                           CompletionDependency(entry[1], job_ids)>> >>]]

\* all dispatch_to_slurm(call, conf) calls of _add_on_completion_tasks
CompletionPlan(on_completion, job_ids) ==
    [i \in 1..Len(on_completion) |->
        [calls |-> <<_FunctionCall(on_completion[i][1], on_completion[i][2],
                                   on_completion[i][3])>>,
         conf |-> << <<S_dependency,
                       CompletionDependency(on_completion[i][1], job_ids)>> >>]]

\* the calls run_locally() makes to SlurmFunction.call, in order
RECURSIVE LocalPlan(_)
LocalPlan(tasks) ==
    IF tasks = <<>> THEN <<>> ELSE tasks[1].calls \o LocalPlan(Tail(tasks))

---------------------------------------------------------------------------
(* The state after AutoBatch(max_batch_size), inside the with block. *)

\* the record of an operation
Operation(op, terminal, exc, ret) ==
    [op |-> op, terminal |-> terminal, raised |-> exc, ret |-> ret,
     after_terminal |-> last.terminal # "none" /\ last.raised = NoException]

\* no distribute() call is in progress
NoFrame == [pc |-> "idle", group |-> 0, calls |-> <<>>, job_ids |-> <<>>]

Init ==
    /\ max_batch_size \in {None} \cup {<<b>> : b \in 1..MaxBatch}
    /\ _tasks = <<>>
    /\ _on_completion = <<>>
    /\ sbatch = "unprobed"
    /\ next_job_id = FirstJobId
    /\ dispatched = <<>>
    /\ executed = <<>>
    /\ stdout = <<>>
    /\ scope = "open"
    /\ last = [op |-> "__init__", terminal |-> "none", raised |-> NoException,
               ret |-> <<>>, after_terminal |-> FALSE]
    /\ pre_tasks = <<>>
    /\ pre_completion = <<>>
    /\ n_add = 0
    /\ n_terminal = 0
    /\ frame = NoFrame

---------------------------------------------------------------------------
(* add(func, *args, **kwargs) *)

add(func, args, kwargs) ==
    /\ pre_tasks' = _tasks
    /\ pre_completion' = _on_completion
    /\ IF ~isinstance_SlurmFunction(func)
       THEN /\ last' = Operation("add", "none", "ValueError", <<>>)
            /\ UNCHANGED <<_tasks, n_add>>
       ELSE LET call == _FunctionCall(func, args, kwargs)
                conf == _get_conf(special_slurm_opts(func))
            IN  /\ _tasks' = tasks_append(_tasks, conf, call)
                /\ n_add' = n_add + 1
                /\ last' = Operation("add", "none", NoException, <<>>)
    /\ dispatched' = <<>>
    /\ executed' = <<>>
    /\ stdout' = <<>>
    /\ UNCHANGED <<frame, max_batch_size, _on_completion, sbatch, next_job_id, scope,
                   n_terminal>>

(* on_completion(func, *args, **kwargs) *)

on_completion(func, args, kwargs) ==
    /\ pre_tasks' = _tasks
    /\ pre_completion' = _on_completion
    /\ Len(_on_completion) < MaxCompletions
    /\ _on_completion' = Append(_on_completion, <<func, args, kwargs>>)
    /\ last' = Operation("on_completion", "none", NoException, <<>>)
    /\ dispatched' = <<>>
    /\ executed' = <<>>
    /\ stdout' = <<>>
    /\ UNCHANGED <<frame, max_batch_size, _tasks, sbatch, next_job_id, scope, n_add,
                   n_terminal>>

---------------------------------------------------------------------------
(* run_locally() and distribute(), called by the caller (op is their name) *)
(* or by __exit__ (op = "__exit__").                                       *)

run_locally_body(op) ==
    /\ n_terminal < MaxTerminals
    /\ n_terminal' = n_terminal + 1
    /\ executed' = LocalPlan(_tasks)
    /\ _tasks' = <<>>
    /\ dispatched' = <<>>
    /\ last' = Operation(op, "run_locally", NoException, <<>>)
    /\ UNCHANGED <<_on_completion, next_job_id>>

\* a distribute() that goes on to the next chunk when dispatch raised
batches_attempted_all(n, fail) == n

\* how many of its n planned batches distribute() passes to dispatch when
\* the fail-th dispatcher call raises: nothing catches the exception, so it
\* leaves both loops
batches_attempted(n, fail) == IF fail \in 1..n THEN fail ELSE n

\* self._tasks cleared whether or not the loops were left by an exception
tasks_cleared_always(tasks, batches_ok) == <<>>

\* self._tasks after the loops: self._tasks.clear() is reached only when no
\* dispatch call raised
tasks_after_batches(tasks, batches_ok) ==
    IF batches_ok THEN <<>> ELSE tasks

\* fail = 0: every dispatcher call returns a job id; fail = k: the k-th
\* dispatcher call of this distribute() raises
distribute_body(op, fail) ==
    LET plan == BatchPlan(_tasks, max_batch_size)
        n == Len(plan)
        batches_ok == fail \notin 1..n
        nb == batches_attempted(n, fail)
        job_ids == [i \in 1..n |-> next_job_id + i - 1]
        cplan == CompletionPlan(_on_completion, job_ids)
        m == Len(cplan)
        ns == IF ~batches_ok THEN 0
              ELSE IF fail \in (n + 1)..(n + m) THEN fail - n ELSE m
        failed == fail \in 1..(n + m)
        batch_log == [i \in 1..nb |->
                        [kind |-> "batch", calls |-> plan[i].calls,
                         conf |-> plan[i].conf, ok |-> i # fail,
                         jid |-> IF i # fail THEN job_ids[i] ELSE 0]]
        single_log == [i \in 1..ns |->
                        [kind |-> "single", calls |-> cplan[i].calls,
                         conf |-> cplan[i].conf, ok |-> n + i # fail,
                         jid |-> IF n + i # fail THEN next_job_id + n + i - 1
                                 ELSE 0]]
    IN  /\ n_terminal < MaxTerminals
        /\ n_terminal' = n_terminal + 1
        /\ dispatched' = batch_log \o single_log
        /\ next_job_id' = next_job_id + (nb + ns) - (IF failed THEN 1 ELSE 0)
        /\ _tasks' = tasks_after_batches(_tasks, batches_ok)
        /\ executed' = <<>>
        /\ last' = IF failed
                   THEN Operation(op, "distribute", "DispatchError", <<>>)
                   ELSE Operation(op, "distribute", NoException, job_ids)
        /\ UNCHANGED _on_completion

\* the number of dispatcher calls a distribute() would make now
DispatcherCalls ==
    Len(BatchPlan(_tasks, max_batch_size)) + Len(_on_completion)

run_locally ==
    /\ pre_tasks' = _tasks
    /\ pre_completion' = _on_completion
    /\ run_locally_body("run_locally")
    /\ stdout' = <<>>
    /\ UNCHANGED <<frame, max_batch_size, sbatch, scope, n_add>>

distribute ==
    /\ pre_tasks' = _tasks
    /\ pre_completion' = _on_completion
    /\ \E fail \in 0..DispatcherCalls : distribute_body("distribute", fail)
    /\ stdout' = <<>>
    /\ UNCHANGED <<frame, max_batch_size, sbatch, scope, n_add>>

---------------------------------------------------------------------------
(* __exit__(exc_type, exc_val, exc_tb), and the with statement that calls  *)
(* it: the body's exception goes on to the surrounding code unless         *)
(* __exit__ returns a true value.                                          *)

\* __exit__ returning True after "Aborted due to exception."
exit_aborted_return_true == "True"

\* what __exit__ returns after "Aborted due to exception."
exit_aborted_return == "None"

\* the exception the with statement lets out after __exit__ returned ret
with_statement_raises(exc_type, ret) ==
    IF exc_type # NoException /\ ret # "True" THEN exc_type ELSE NoException

\* exit_aborted without its return: __exit__ goes on to distribute()
exit_aborted_falls_through(exc_type) ==
    /\ exc_type # NoException
    /\ stdout' = <<"Aborted due to exception.">>
    /\ distribute_body("__exit__", 0)
    /\ UNCHANGED sbatch

exit_aborted(exc_type) ==
    /\ exc_type # NoException
    /\ stdout' = <<"Aborted due to exception.">>
    /\ last' = Operation("__exit__", "none",
                         with_statement_raises(exc_type, exit_aborted_return),
                         <<>>)
    /\ dispatched' = <<>>
    /\ executed' = <<>>
    /\ UNCHANGED <<_tasks, _on_completion, sbatch, next_job_id, n_terminal>>

\* exit_local with the branches swapped: no sbatch, and distribute() runs
exit_local_distributes(exc_type) ==
    /\ exc_type = NoException
    /\ sbatch' = "missing"
    /\ stdout' = <<>>
    /\ distribute_body("__exit__", 0)

exit_local(exc_type) ==
    /\ exc_type = NoException
    /\ sbatch' = "missing"
    /\ stdout' = <<"No Slurm environment available. Running batch locally.">>
    /\ run_locally_body("__exit__")

exit_distribute(exc_type) ==
    /\ exc_type = NoException
    /\ sbatch' = "found"
    /\ \E fail \in 0..DispatcherCalls : distribute_body("__exit__", fail)
    /\ stdout' = <<>>

__exit__ ==
    /\ pre_tasks' = _tasks
    /\ pre_completion' = _on_completion
    /\ scope = "open"
    /\ \E exc_type \in {NoException, "BodyError"} :
          /\ scope' = IF exc_type = NoException THEN "exited" ELSE "failed"
          /\ \/ exit_aborted(exc_type)
             \/ exit_local(exc_type)
             \/ exit_distribute(exc_type)
    /\ UNCHANGED <<frame, max_batch_size, n_add>>

---------------------------------------------------------------------------

Next ==
    \/ \E func \in SlurmFunctions \cup {PlainFunction} :
          n_add < MaxAdds /\ add(func, <<n_add>>, <<>>)
    \/ \E func \in CompletionFunctions :
          on_completion(func, <<Len(_on_completion)>>, <<>>)
    \/ run_locally
    \/ distribute
    \/ __exit__

Spec == Init /\ [][Next]_vars

(* A caller that only batches: up to MaxBatchedAdds calls under two         *)
(* configurations, distributed by name or at scope exit.                   *)

NextBatching ==
    \/ \E func \in {"F1", "F3"} :
          n_add < MaxBatchedAdds /\ add(func, <<n_add>>, <<>>)
    \/ distribute
    \/ __exit__

SpecBatching == Init /\ [][NextBatching]_vars

---------------------------------------------------------------------------
(* distribute() an iteration at a time: the for loop over the groups, the  *)
(* while loop over a group's calls, and any int as max_batch_size, which   *)
(* __init__ stores unchecked.                                              *)

InitLoop ==
    /\ max_batch_size \in {None} \cup {<<b>> : b \in (0 - MaxNegativeBatch)..MaxBatch}
    /\ _tasks = <<>>
    /\ _on_completion = <<>>
    /\ sbatch = "unprobed"
    /\ next_job_id = FirstJobId
    /\ dispatched = <<>>
    /\ executed = <<>>
    /\ stdout = <<>>
    /\ scope = "open"
    /\ last = [op |-> "__init__", terminal |-> "none", raised |-> NoException,
               ret |-> <<>>, after_terminal |-> FALSE]
    /\ pre_tasks = <<>>
    /\ pre_completion = <<>>
    /\ n_add = 0
    /\ n_terminal = 0
    /\ frame = NoFrame

\* the latest MaxKept elements of s
Keep(s) == IF Len(s) > MaxKept THEN SubSeq(s, Len(s) - MaxKept + 1, Len(s))
           ELSE s

\* the job id the scheduler hands out after j
JobIdAfter(j) == IF j >= MaxJobId THEN FirstJobId ELSE j + 1

\* job_ids.append(dispatch(calls, conf)) with a dispatcher that returns
dispatch_batch(calls, conf) ==
    /\ dispatched' = Keep(Append(dispatched,
                          [kind |-> "batch", calls |-> calls, conf |-> conf,
                           ok |-> TRUE, jid |-> next_job_id]))
    /\ next_job_id' = JobIdAfter(next_job_id)

\* the caller calls distribute()
distribute_call ==
    /\ frame = NoFrame
    /\ n_terminal < MaxTerminals
    /\ n_terminal' = n_terminal + 1
    /\ pre_tasks' = _tasks
    /\ pre_completion' = _on_completion
    /\ frame' = [pc |-> "for", group |-> 1, calls |-> <<>>, job_ids |-> <<>>]
    /\ dispatched' = <<>>
    /\ executed' = <<>>
    /\ stdout' = <<>>
    /\ UNCHANGED <<max_batch_size, _tasks, _on_completion, sbatch,
                   next_job_id, scope, last, n_add>>

\* for conf, calls in self._tasks.items(): the next group; without
\* max_batch_size, its one dispatch
for_group ==
    /\ frame.pc = "for"
    /\ frame.group <= Len(_tasks)
    /\ IF max_batch_size = None
       THEN /\ dispatch_batch(_tasks[frame.group].calls,
                              _tasks[frame.group].key)
            /\ frame' = [frame EXCEPT
                            !.job_ids = Keep(Append(@, next_job_id)),
                            !.group = @ + 1]
       ELSE /\ frame' = [frame EXCEPT !.pc = "while",
                                      !.calls = _tasks[frame.group].calls]
            /\ UNCHANGED <<dispatched, next_job_id>>
    /\ UNCHANGED <<max_batch_size, _tasks, _on_completion, sbatch, executed,
                   stdout, scope, last, pre_tasks, pre_completion, n_add,
                   n_terminal>>

\* while calls: one dispatch of calls[:max_batch_size], then
\* calls = calls[max_batch_size:]
while_chunk ==
    /\ frame.pc = "while"
    /\ frame.calls # <<>>
    /\ dispatch_batch(SliceTo(frame.calls, max_batch_size[1]),
                      _tasks[frame.group].key)
    /\ frame' = [frame EXCEPT
                    !.job_ids = Keep(Append(@, next_job_id)),
                    !.calls = SliceFrom(@, max_batch_size[1])]
    /\ UNCHANGED <<max_batch_size, _tasks, _on_completion, sbatch, executed,
                   stdout, scope, last, pre_tasks, pre_completion, n_add,
                   n_terminal>>

\* while calls: calls is empty, on to the next group
while_end ==
    /\ frame.pc = "while"
    /\ frame.calls = <<>>
    /\ frame' = [frame EXCEPT !.pc = "for", !.group = @ + 1]
    /\ UNCHANGED <<max_batch_size, _tasks, _on_completion, sbatch,
                   next_job_id, dispatched, executed, stdout, scope, last,
                   pre_tasks, pre_completion, n_add, n_terminal>>

\* after the last group: self._tasks.clear(), the completion entries,
\* return job_ids
distribute_return ==
    /\ frame.pc = "for"
    /\ frame.group > Len(_tasks)
    /\ LET cplan == CompletionPlan(_on_completion, frame.job_ids)
       IN  /\ dispatched' =
                 dispatched \o
                 [i \in 1..Len(cplan) |->
                     [kind |-> "single", calls |-> cplan[i].calls,
                      conf |-> cplan[i].conf, ok |-> TRUE,
                      jid |-> next_job_id + i - 1]]
           /\ next_job_id' = next_job_id + Len(cplan)
    /\ _tasks' = <<>>
    /\ last' = Operation("distribute", "distribute", NoException,
                         frame.job_ids)
    /\ frame' = NoFrame
    /\ UNCHANGED <<max_batch_size, _on_completion, sbatch, executed, stdout,
                   scope, pre_tasks, pre_completion, n_add, n_terminal>>

\* the dispatcher raises in the dispatch about to be made: the exception
\* ends distribute()
dispatch_raises ==
    /\ \/ frame.pc = "for" /\ frame.group <= Len(_tasks)
                           /\ max_batch_size = None
       \/ frame.pc = "while" /\ frame.calls # <<>>
    /\ dispatched' =
          Keep(Append(dispatched,
               [kind |-> "batch",
                calls |-> IF max_batch_size = None
                          THEN _tasks[frame.group].calls
                          ELSE SliceTo(frame.calls, max_batch_size[1]),
                conf |-> _tasks[frame.group].key,
                ok |-> FALSE, jid |-> 0]))
    /\ last' = Operation("distribute", "distribute", "DispatchError", <<>>)
    /\ frame' = NoFrame
    /\ UNCHANGED <<max_batch_size, _tasks, _on_completion, sbatch,
                   next_job_id, executed, stdout, scope, pre_tasks,
                   pre_completion, n_add, n_terminal>>

\* what the interpreter does next inside distribute()
LoopStep ==
    \/ for_group
    \/ while_chunk
    \/ while_end
    \/ distribute_return

NextLoop ==
    \/ \E func \in {"F1", "F3"} :
          /\ frame = NoFrame
          /\ n_add < MaxLoopAdds
          /\ add(func, <<n_add>>, <<>>)
    \/ distribute_call
    \/ LoopStep
    \/ dispatch_raises

\* the interpreter keeps running a distribute() that was called
SpecLoop == InitLoop /\ [][NextLoop]_vars /\ WF_vars(LoopStep)

---------------------------------------------------------------------------
(* Vocabulary of the properties. *)

RECURSIVE Concat(_)
\* the concatenation of a sequence of sequences
Concat(ss) == IF ss = <<>> THEN <<>> ELSE ss[1] \o Concat(Tail(ss))

\* a configuration as a value: the set of its key/value pairs
ConfSet(d) == {d[i] : i \in 1..Len(d)}

\* the effective configuration of an invocation of func
EffectiveConf(func) == _get_conf(special_slurm_opts(func))

\* the dispatch_batch calls of the last operation, in dispatch order
BatchCalls == SelectSeq(dispatched, LAMBDA e : e.kind = "batch")

\* the dispatch_single calls of the last operation, in dispatch order
SingleCalls == SelectSeq(dispatched, LAMBDA e : e.kind = "single")

\* the batches dispatched with configuration conf, in dispatch order
BatchesOf(conf) ==
    LET es == SelectSeq(BatchCalls, LAMBDA e : e.conf = conf)
    IN  [i \in 1..Len(es) |-> es[i].calls]

\* the last operation ran distribute() (by name or from __exit__)
Distributed == last.terminal = "distribute"

\* the last operation ran run_locally() (by name or from __exit__)
RanLocally == last.terminal = "run_locally"

\* the last operation returned normally
Returned == last.raised = NoException

\* max_batch_size is a positive int
BoundSet == max_batch_size # None /\ max_batch_size[1] > 0

---------------------------------------------------------------------------
\* C1: for every group and every positive max_batch_size, the batches a
\* distribute() that returns passes to dispatch_batch for that group,
\* concatenated in dispatch order, are the group's calls in add() order:
\* nothing duplicated, dropped or reordered, and no batch belongs to no group.
C1_OrderPreservation ==
    (Distributed /\ Returned /\ BoundSet) =>
        /\ \A g \in 1..Len(pre_tasks) :
              Concat(BatchesOf(pre_tasks[g].key)) = pre_tasks[g].calls
        /\ \A i \in 1..Len(BatchCalls) :
              \E g \in 1..Len(pre_tasks) : BatchCalls[i].conf = pre_tasks[g].key

\* a distribute() with max_batch_size = 2 has split a group of three calls
C1_Witness ==
    /\ Distributed /\ Returned
    /\ max_batch_size = <<2>>
    /\ \E g \in 1..Len(pre_tasks) :
          /\ Len(pre_tasks[g].calls) = 3
          /\ Len(BatchesOf(pre_tasks[g].key)) = 2

\* C2: with max_batch_size B set, every batch passed to dispatch_batch has
\* at most B calls and only the last batch of a group is shorter than B;
\* with max_batch_size unset, the batches are the groups, one batch each.
C2_ChunkBound ==
    Distributed =>
        IF max_batch_size # None
        THEN /\ \A i \in 1..Len(BatchCalls) :
                  Len(BatchCalls[i].calls) <= max_batch_size[1]
             /\ \A i, j \in 1..Len(BatchCalls) :
                  (i < j /\ BatchCalls[i].conf = BatchCalls[j].conf) =>
                      Len(BatchCalls[i].calls) = max_batch_size[1]
        ELSE /\ Len(BatchCalls) <= Len(pre_tasks)
             /\ Returned => Len(BatchCalls) = Len(pre_tasks)
             /\ \A i \in 1..Len(BatchCalls) :
                  /\ BatchCalls[i].calls = pre_tasks[i].calls
                  /\ BatchCalls[i].conf = pre_tasks[i].key

\* a distribute() with max_batch_size = 2 has dispatched a full batch and
\* then a shorter last one
C2_Witness ==
    /\ Distributed
    /\ max_batch_size = <<2>>
    /\ \E i, j \in 1..Len(BatchCalls) :
          /\ i < j
          /\ Len(BatchCalls[i].calls) = 2
          /\ Len(BatchCalls[j].calls) = 1
          /\ BatchCalls[i].conf = BatchCalls[j].conf

\* the calls of all groups of tasks, as a set
CallsIn(tasks) ==
    UNION {{tasks[g].calls[i] : i \in 1..Len(tasks[g].calls)} :
             g \in 1..Len(tasks)}

RECURSIVE CountCalls(_)
\* the number of calls in all groups of tasks
CountCalls(tasks) ==
    IF tasks = <<>> THEN 0 ELSE Len(tasks[1].calls) + CountCalls(Tail(tasks))

\* C3: two invocations are in the same group exactly if their effective
\* configurations have the same key/value pairs, whatever the order of the
\* keys: the groups' keys are pairwise different as values, every call is in
\* the group of its configuration's value, and an accepted add() puts its
\* call in exactly one group and moves no other call.
C3_Grouping ==
    /\ \A g, h \in 1..Len(_tasks) :
          g # h => ConfSet(_tasks[g].key) # ConfSet(_tasks[h].key)
    /\ \A g \in 1..Len(_tasks) : \A i \in 1..Len(_tasks[g].calls) :
          ConfSet(EffectiveConf(_tasks[g].calls[i].func_id))
              = ConfSet(_tasks[g].key)
    /\ (last.op = "add" /\ Returned) =>
          /\ CountCalls(_tasks) = CountCalls(pre_tasks) + 1
          /\ Cardinality(CallsIn(_tasks)) = CountCalls(_tasks)
          /\ \A g \in 1..Len(pre_tasks) :
                /\ _tasks[g].key = pre_tasks[g].key
                /\ SubSeq(_tasks[g].calls, 1, Len(pre_tasks[g].calls))
                      = pre_tasks[g].calls

\* calls whose configurations list the same pairs in different orders share
\* a group, beside a group of another configuration
C3_Witness ==
    /\ Len(_tasks) = 2
    /\ \E g \in 1..Len(_tasks) : \E i, j \in 1..Len(_tasks[g].calls) :
          /\ EffectiveConf(_tasks[g].calls[i].func_id)
                 # EffectiveConf(_tasks[g].calls[j].func_id)
          /\ ConfSet(EffectiveConf(_tasks[g].calls[i].func_id))
                 = ConfSet(EffectiveConf(_tasks[g].calls[j].func_id))

\* C4: when __exit__ finds no sbatch, it makes no dispatcher call, returns
\* no job id, and the calls run locally are exactly the accumulated calls,
\* group after group in first-insertion order and in add() order within a
\* group, each once; when __exit__ finds sbatch, nothing is run locally.
C4_FallbackSelection ==
    /\ (last.op = "__exit__" /\ sbatch = "missing") =>
          /\ dispatched = <<>>
          /\ last.ret = <<>>
          /\ executed
               = Concat([g \in 1..Len(pre_tasks) |-> pre_tasks[g].calls])
          /\ Cardinality({executed[i] : i \in 1..Len(executed)})
               = Len(executed)
    /\ (last.op = "__exit__" /\ sbatch = "found") => executed = <<>>

\* __exit__ has found no sbatch and run three calls of two groups locally
C4_Witness ==
    /\ last.op = "__exit__"
    /\ sbatch = "missing"
    /\ Len(pre_tasks) = 2
    /\ Len(executed) = 3
    /\ pre_completion # <<>>

\* the calls registered with on_completion(), in registration order
CompletionCallsOf(on_comp) ==
    [i \in 1..Len(on_comp) |->
        [func_id |-> on_comp[i][1], args |-> on_comp[i][2],
         kwargs |-> on_comp[i][3]]]

\* C5: on the local path every call registered with on_completion() is run
\* locally, in registration order, after the calls of all groups.
C5_CompletionRunsLocally ==
    (RanLocally /\ Returned) =>
        executed = Concat([g \in 1..Len(pre_tasks) |-> pre_tasks[g].calls])
                   \o CompletionCallsOf(pre_completion)

\* C6: when the body of the with block raised, __exit__ makes no
\* dispatch_batch call, no dispatch_single call and runs nothing locally,
\* whatever add() and on_completion() had accumulated.
C6_AbortSubmitsNothing ==
    (last.op = "__exit__" /\ scope = "failed") =>
        /\ dispatched = <<>>
        /\ executed = <<>>
        /\ last.terminal = "none"

\* the body raised with calls accumulated and a completion call registered
C6_Witness ==
    /\ last.op = "__exit__"
    /\ scope = "failed"
    /\ _tasks # <<>>
    /\ _on_completion # <<>>

\* C7 as claimed: when the body raised, __exit__ reports the exception and
\* swallows it: the with statement lets no exception out.
C7_ExceptionSwallowed ==
    (last.op = "__exit__" /\ scope = "failed") =>
        /\ stdout = <<"Aborted due to exception.">>
        /\ last.raised = NoException

\* C7 as amended: when the body raised, __exit__ reports the exception and
\* returns None, so the with statement lets the body's exception out.
C7_ExceptionReportedAndPropagated ==
    (last.op = "__exit__" /\ scope = "failed") =>
        /\ stdout = <<"Aborted due to exception.">>
        /\ last.raised = "BodyError"

\* the body raised and __exit__ has printed its report
C7_Witness ==
    /\ last.op = "__exit__"
    /\ scope = "failed"
    /\ stdout # <<>>
    /\ last.raised # NoException

\* C8: a terminal action run right after a terminal action that returned
\* makes no dispatcher call and returns an empty result.
C8_DrainIdempotence ==
    (last.terminal # "none" /\ last.after_terminal) =>
        /\ dispatched = <<>>
        /\ last.ret = <<>>

\* C9: after a distribute() or run_locally() that returned, the group
\* mapping and the completion list are both empty.
C9_FullyDrained ==
    (last.terminal # "none" /\ Returned) =>
        /\ _tasks = <<>>
        /\ _on_completion = <<>>

\* the decimal numeral of n < 100: the digits, without a leading zero,
\* whose value is n
Numeral(n) ==
    LET ds == CHOOSE d \in UNION {[1..k -> 0..9] : k \in 1..2} :
                  /\ Len(d) > 1 => d[1] # 0
                  /\ n = IF Len(d) = 1 THEN d[1] ELSE 10 * d[1] + d[2]
    IN  [i \in 1..Len(ds) |-> Digits[ds[i] + 1]]

RECURSIVE ColonJoined(_)
\* the numerals of ids with a colon between neighbours
ColonJoined(ids) ==
    IF ids = <<>> THEN <<>>
    ELSE IF Len(ids) = 1 THEN Numeral(ids[1])
    ELSE ColonJoined(SubSeq(ids, 1, Len(ids) - 1))
         \o <<":">> \o Numeral(ids[Len(ids)])

\* the dependency option among a function's special options, "" if none
ExistingDependency(func) ==
    LET deps == {item \in ConfSet(special_slurm_opts(func)) :
                    item[1] = <<"d", "e", "p", "e", "n", "d", "e", "n", "c", "y">>}
    IN  IF deps = {} THEN <<>> ELSE (CHOOSE item \in deps : TRUE)[2]

\* the dependency string the claim describes
DescribedDependency(existing, ids) ==
    (IF existing # <<>> THEN existing \o <<",">> ELSE <<>>)
    \o <<"a", "f", "t", "e", "r", "a", "n", "y", ":">> \o ColonJoined(ids)

\* the job ids the dispatch_batch calls of the last operation returned
BatchJobIds == [i \in 1..Len(BatchCalls) |-> BatchCalls[i].jid]

\* "afterok:5,afterany:10:11"
AfterOk5AfterAny1011 ==
    <<"a", "f", "t", "e", "r", "o", "k", ":", "5", ",",
      "a", "f", "t", "e", "r", "a", "n", "y", ":", "1", "0", ":", "1", "1">>

\* C10: every completion entry is submitted with the one option
\* "dependency", whose value is the entry's existing dependency clause and
\* a comma, if it has one, then "afterany:" and the job ids of this
\* distribute() joined by colons in order; "afterok:5" with the ids 10, 11
\* gives "afterok:5,afterany:10:11".
C10_DependencyComposition ==
    Distributed =>
        \A i \in 1..Len(SingleCalls) :
            LET e == SingleCalls[i]
                existing == ExistingDependency(pre_completion[i][1])
            IN  /\ Len(e.conf) = 1
                /\ e.conf[1][1]
                     = <<"d", "e", "p", "e", "n", "d", "e", "n", "c", "y">>
                /\ e.conf[1][2] = DescribedDependency(existing, BatchJobIds)
                /\ (existing = <<"a", "f", "t", "e", "r", "o", "k", ":", "5">>
                      /\ BatchJobIds = <<10, 11>>)
                     => e.conf[1][2] = AfterOk5AfterAny1011

\* an entry with the dependency "afterok:5" and one with none have been
\* submitted after the jobs 10 and 11
C10_Witness ==
    /\ Distributed
    /\ BatchJobIds = <<10, 11>>
    /\ Len(SingleCalls) = 2
    /\ \E i \in 1..2 : SingleCalls[i].conf[1][2] = AfterOk5AfterAny1011
    /\ \E i \in 1..2 :
          SingleCalls[i].conf[1][2]
            = <<"a", "f", "t", "e", "r", "a", "n", "y", ":",
                "1", "0", ":", "1", "1">>

\* the position in pre_tasks of the group a batch was dispatched for
GroupOf(e) == CHOOSE g \in 1..Len(pre_tasks) : pre_tasks[g].key = e.conf

\* the sizes of the batches dispatched, in dispatch order
BatchSizes == [i \in 1..Len(BatchCalls) |-> Len(BatchCalls[i].calls)]

\* C11: a distribute() that returns, returns the job ids of its
\* dispatch_batch calls, one each, in dispatch order, the batches of an
\* earlier group before those of a later one; two calls under one
\* configuration with max_batch_size unset are one batch of both calls and
\* a one-element result; five calls under one configuration with
\* max_batch_size = 2 are batches of 2, 2 and 1 calls and three job ids.
C11_ReturnedJobIds ==
    (Distributed /\ Returned) =>
        /\ last.ret = BatchJobIds
        /\ Len(last.ret) = Len(BatchCalls)
        /\ \A i, j \in 1..Len(BatchCalls) :
              i < j => /\ GroupOf(BatchCalls[i]) <= GroupOf(BatchCalls[j])
                       /\ BatchCalls[i].jid # BatchCalls[j].jid
        /\ (max_batch_size = None /\ Len(pre_tasks) = 1
              /\ Len(pre_tasks[1].calls) = 2) =>
              /\ Len(last.ret) = 1
              /\ BatchCalls = <<BatchCalls[1]>>
              /\ BatchCalls[1].calls = pre_tasks[1].calls
        /\ (max_batch_size = <<2>> /\ Len(pre_tasks) = 1
              /\ Len(pre_tasks[1].calls) = 5) =>
              /\ Len(last.ret) = 3
              /\ BatchSizes = <<2, 2, 1>>

\* five calls under one configuration have been distributed with
\* max_batch_size = 2
C11_Witness ==
    /\ Distributed /\ Returned
    /\ max_batch_size = <<2>>
    /\ Len(pre_tasks) = 1
    /\ Len(pre_tasks[1].calls) = 5
    /\ Len(last.ret) = 3

\* an add() was rejected: it let an exception out
AddRejected == last.op = "add" /\ last.raised # NoException

\* add() leaves the group mapping and the completion list alone, and no
\* call of something that is no SlurmFunction is ever in a group
RejectionKeepsState ==
    /\ AddRejected =>
          /\ _tasks = pre_tasks
          /\ _on_completion = pre_completion
          /\ dispatched = <<>>
          /\ executed = <<>>
    /\ \A g \in 1..Len(_tasks) : \A i \in 1..Len(_tasks[g].calls) :
          _tasks[g].calls[i].func_id # "plain"

\* C12 as claimed: add() of a target that is no registered callable handle
\* raises at once an error of the TypeError kind and leaves the group
\* mapping and the completion list as they were.
C12_NotBatchableTypeError ==
    /\ AddRejected => last.raised = "TypeError"
    /\ RejectionKeepsState

\* C12 as amended: add() of a target that is no SlurmFunction raises at
\* once a ValueError and leaves the group mapping and the completion list
\* as they were.
C12_NotBatchableValueError ==
    /\ AddRejected => last.raised = "ValueError"
    /\ RejectionKeepsState

\* an add() has been rejected with calls and a completion entry accumulated
C12_Witness ==
    /\ AddRejected
    /\ _tasks # <<>>
    /\ _on_completion # <<>>

\* C13: the session leaves OPEN once: a terminal action that is not the
\* session's first (such as the distribute() of __exit__ after a
\* distribute() in the body) submits nothing and runs nothing.
C13_SingleTerminalAction ==
    (last.terminal # "none" /\ n_terminal > 1) =>
        /\ dispatched = <<>>
        /\ executed = <<>>

\* C14: an add() made after a terminal action has run is rejected: it
\* raises and appends the call to no group.
C14_AddAfterTerminalRejected ==
    (last.op = "add" /\ n_terminal > 0) =>
        /\ last.raised # NoException
        /\ _tasks = pre_tasks

\* C15: in one distribute(), no dispatch_batch call comes after a
\* dispatch_single call; if it returns, every registered completion entry
\* has been dispatched once, in registration order, each with an afterany
\* clause of exactly the job ids distribute() returns, in their order.
C15_CompletionAfterBatches ==
    Distributed =>
        /\ \A i, j \in 1..Len(dispatched) :
              i < j => ~(dispatched[i].kind = "single"
                           /\ dispatched[j].kind = "batch")
        /\ Returned =>
              /\ Len(SingleCalls) = Len(pre_completion)
              /\ \A i \in 1..Len(SingleCalls) :
                    /\ SingleCalls[i].calls
                         = <<CompletionCallsOf(pre_completion)[i]>>
                    /\ SingleCalls[i].conf[1][2]
                         = DescribedDependency(
                               ExistingDependency(pre_completion[i][1]),
                               last.ret)

\* a distribute() has dispatched three batches and then two different
\* completion entries
C15_Witness ==
    /\ Distributed /\ Returned
    /\ Len(last.ret) = 3
    /\ Len(SingleCalls) = 2
    /\ SingleCalls[1].calls # SingleCalls[2].calls
    /\ pre_completion[1][1] # pre_completion[2][1]

\* a dispatch_batch call of the last operation raised
BatchFailed ==
    \E i \in 1..Len(dispatched) :
        dispatched[i].kind = "batch" /\ ~dispatched[i].ok

\* the calls of the batches passed to dispatch_batch, as a set
AttemptedCalls ==
    UNION {{BatchCalls[i].calls[k] : k \in 1..Len(BatchCalls[i].calls)} :
             i \in 1..Len(BatchCalls)}

\* C16 as stated: when a dispatch_batch call raises, distribute() goes on,
\* and every chunk of every group is still passed to dispatch_batch.
C16_ContinuesAfterFailure ==
    (Distributed /\ BatchFailed) => CallsIn(pre_tasks) \subseteq AttemptedCalls

\* C16, amended: when a dispatch_batch call raises, distribute() stops
\* there: the exception reaches the caller, the raising call is the last
\* dispatcher call of the run, and the later chunks and groups are not
\* attempted.
C16_StopsAtFailure ==
    (Distributed /\ BatchFailed) =>
        /\ last.raised = "DispatchError"
        /\ ~dispatched[Len(dispatched)].ok
        /\ \A i \in 1..(Len(dispatched) - 1) : dispatched[i].ok
        /\ \A i, j \in 1..Len(BatchCalls) :
              i # j => BatchCalls[i].calls # BatchCalls[j].calls
        /\ AttemptedCalls \subseteq CallsIn(pre_tasks)

\* the first dispatch_batch call of a distribute() raised with calls of
\* other chunks still to submit
C16_Witness ==
    /\ Distributed /\ BatchFailed
    /\ Len(BatchCalls) = 1
    /\ CallsIn(pre_tasks) \ AttemptedCalls # {}

\* when a dispatch_batch call has raised: the error is the caller's, the
\* earlier batches have their job ids, no completion entry was dispatched,
\* and the groups and the completion list are those of before the call
C17_FailureState ==
    (Distributed /\ BatchFailed) =>
        /\ last.raised = "DispatchError"
        /\ \A i \in 1..(Len(BatchCalls) - 1) :
              BatchCalls[i].ok /\ BatchCalls[i].jid >= FirstJobId
        /\ SingleCalls = <<>>
        /\ _tasks = pre_tasks
        /\ _tasks # <<>>
        /\ _on_completion = pre_completion

\* a distribute() that returns, made directly after one in which a
\* dispatch_batch call raised, dispatches the batches submitted by the
\* failed one again, in the same places
C17_RetryResubmits ==
    (Distributed /\ BatchFailed /\ Distributed' /\ Returned') =>
        /\ pre_tasks' = pre_tasks
        /\ \A i \in 1..(Len(BatchCalls) - 1) :
              /\ i <= Len(BatchCalls')
              /\ BatchCalls'[i].calls = BatchCalls[i].calls
              /\ BatchCalls'[i].conf = BatchCalls[i].conf
              /\ BatchCalls'[i].jid > BatchCalls[i].jid

\* C17: if a dispatch_batch call raises, the error propagates, the chunks
\* submitted before it stay submitted, no completion entry is dispatched,
\* the group mapping and the completion list are as before the call, and a
\* retried distribute() submits the already submitted chunks again.
C17_FailureLeavesState ==
    /\ []C17_FailureState
    /\ [][C17_RetryResubmits]_vars

\* the second dispatch_batch call of a distribute() raised while a
\* completion entry was registered
C17_Witness ==
    /\ Distributed /\ BatchFailed
    /\ Len(BatchCalls) = 2
    /\ BatchCalls[1].ok
    /\ pre_completion # <<>>

\* C20: every completion entry a distribute() submits has an afterany
\* clause naming a non-empty list of job ids, each returned by a
\* dispatch_batch call of the same run, also when no invocation was
\* accumulated.
C20_DependencyNamesJobs ==
    Distributed =>
        \A i \in 1..Len(SingleCalls) :
            /\ BatchJobIds # <<>>
            /\ \A k \in 1..Len(BatchJobIds) : BatchJobIds[k] >= FirstJobId
            /\ SingleCalls[i].conf[1][2]
                 = DescribedDependency(
                       ExistingDependency(SingleCalls[i].calls[1].func_id),
                       BatchJobIds)

\* a distribute() call is in progress
Running == frame.pc # "idle"

\* max_batch_size is unset or a positive int
UnsetOrPositive == max_batch_size = None \/ max_batch_size[1] > 0

\* the least integer not below n / b, for b > 0
CeilDiv(n, b) == (n + b - 1) \div b

\* when a distribute() has returned with max_batch_size unset or positive:
\* one dispatch_batch call per group if unset, ceil(n / B) calls for each
\* group of n calls if set to B, no call for anything else, no empty batch
C18_BatchCounts ==
    (~Running /\ Distributed /\ Returned /\ UnsetOrPositive) =>
        /\ \A g \in 1..Len(pre_tasks) :
              Len(BatchesOf(pre_tasks[g].key))
                = IF max_batch_size = None THEN 1
                  ELSE CeilDiv(Len(pre_tasks[g].calls), max_batch_size[1])
        /\ \A i \in 1..Len(BatchCalls) :
              /\ BatchCalls[i].calls # <<>>
              /\ \E g \in 1..Len(pre_tasks) :
                    BatchCalls[i].conf = pre_tasks[g].key
        /\ _tasks = <<>>

\* C18: with max_batch_size unset or positive, a distribute() that was
\* called terminates, having made one dispatch_batch call per group if
\* unset and ceil(n / B) calls for each group of n calls if set to B, none
\* with an empty batch.
C18_TerminatesWithCounts ==
    /\ []C18_BatchCounts
    /\ (Running /\ UnsetOrPositive) ~> ~Running

\* a distribute() with max_batch_size = 2 has returned after two
\* dispatch_batch calls for a group of three calls and one for another
C18_Witness ==
    /\ ~Running /\ Distributed /\ Returned
    /\ max_batch_size = <<2>>
    /\ Len(pre_tasks) = 2
    /\ Len(pre_tasks[1].calls) = 3
    /\ Len(BatchCalls) = 3

\* C19: with max_batch_size 0 or negative, which the constructor accepts,
\* and at least one accumulated invocation, a distribute() that was called
\* terminates.
C19_TerminatesForAnyInteger ==
    (Running /\ ~UnsetOrPositive /\ _tasks # <<>>) ~> ~Running

====
